---- MODULE Spec2Model ----
(***************************************************************************)
(* RAKE keyword extraction (src/src/rake.rs): Rake::run segments a text    *)
(* into phrases, scores the words over all phrases, scores each phrase as  *)
(* the sum of its word scores and returns the candidates ranked by score.  *)
(*                                                                         *)
(* A text is a sequence of characters (one-character strings), a token a   *)
(* non-empty sequence of characters, a phrase a sequence of tokens.  A     *)
(* HashMap is a function on its key set.  An f64 is modelled as the exact  *)
(* rational <<n, d>> in lowest terms: every score here is a sum of ratios  *)
(* of small integers, and rounding is not modelled.                        *)
(***************************************************************************)
EXTENDS Integers, Sequences, FiniteSets, TLC

\* Longest input text, in characters.
MaxLen == 5

\* Characters of the input texts: a letter, an uppercase letter whose
\* lowercase form is "s", a digit, whitespace, a punctuation mark and the
\* hyphen.
Alphabet == {"a", "S", "1", " ", ",", "-"}

\* Stopword sets a Rake is constructed with (lowercase words).
StopWordSets == {{}, {<<"s">>}}

Texts == UNION {[1..n -> Alphabet] : n \in 0..MaxLen}

VARIABLES
    stop_words,     \* Rake.stop_words, fixed at construction
    text,           \* the argument of run
    pc,             \* position inside run; "done" once it has returned
    phrases,        \* run's local `phrases`
    word_freq,      \* word_scores' local `word_freq` when its loop has ended
    word_degree,    \* word_scores' local `word_degree` when its loop has ended
    word_scores,    \* run's local `word_scores`
    keyword_score,  \* candidate_keywords' local `keyword_score` when its loop has ended
    keywords,       \* the vector run returns
    run_no,         \* 1 for the first call of run on the text, 2 for the second
    first_keywords  \* what the first call returned

vars == <<stop_words, text, pc, phrases, word_freq, word_degree, word_scores,
          keyword_score, keywords, run_no, first_keywords>>

----------------------------------------------------------------------------
\* Character classes of the regex crate and of std.

\* \s and char::is_whitespace
IsWhitespace(c) == c = " "

\* \p{P}
IsPunctuation(c) == c \in {",", "-"}

\* \p{N}
IsNumeric(c) == c = "1"

\* char::to_lowercase
LowerChar(c) == IF c = "S" THEN "s" ELSE c

\* str::to_lowercase
to_lowercase(word) == [i \in 1..Len(word) |-> LowerChar(word[i])]

EmptyMap == [k \in {} |-> 0]

----------------------------------------------------------------------------
\* num_re = -?\p{N}+[./٫,']?\p{N}* , used unanchored by is_match: a match
\* starts at i when s[i] is numeric, or s[i] is "-" and s[i+1] is numeric;
\* everything after the first numeric character is optional.
num_re_match_at(s, i) ==
    \/ IsNumeric(s[i])
    \/ s[i] = "-" /\ i + 1 <= Len(s) /\ IsNumeric(s[i + 1])

is_number(s) == \E i \in 1..Len(s) : num_re_match_at(s, i)

\* First index >= i of s that is not whitespace (Len(s) + 1 if none): \s+ is greedy.
RECURSIVE SkipWhitespace(_, _)
SkipWhitespace(s, i) ==
    IF i <= Len(s) /\ IsWhitespace(s[i]) THEN SkipWhitespace(s, i + 1) ELSE i

\* punc_re = [^\P{P}-]|\s+-\s+ : the index after the match that starts at i,
\* 0 when none starts there.
punc_re_match(s, i) ==
    IF IsPunctuation(s[i]) /\ s[i] # "-" THEN i + 1
    ELSE IF IsWhitespace(s[i])
         THEN LET j == SkipWhitespace(s, i) IN
              IF j + 1 <= Len(s) /\ s[j] = "-" /\ IsWhitespace(s[j + 1])
              THEN SkipWhitespace(s, j + 1)
              ELSE 0
         ELSE 0

\* Regex::split: the pieces of s between the successive leftmost matches.
RECURSIVE SplitLoop(_, _, _, _)
SplitLoop(s, i, last, out) ==
    IF i > Len(s) THEN Append(out, SubSeq(s, last, Len(s)))
    ELSE LET e == punc_re_match(s, i) IN
         IF e = 0 THEN SplitLoop(s, i + 1, last, out)
         ELSE SplitLoop(s, e, e, Append(out, SubSeq(s, last, i - 1)))

punc_re_split(s) == SplitLoop(s, 1, 1, <<>>)

\* str::split_whitespace: the maximal runs of non-whitespace characters.
RECURSIVE SplitWhitespaceLoop(_, _, _, _)
SplitWhitespaceLoop(s, i, word, out) ==
    IF i > Len(s) THEN (IF word = <<>> THEN out ELSE Append(out, word))
    ELSE IF IsWhitespace(s[i])
         THEN SplitWhitespaceLoop(s, i + 1, <<>>,
                                  IF word = <<>> THEN out ELSE Append(out, word))
         ELSE SplitWhitespaceLoop(s, i + 1, Append(word, s[i]), out)

split_whitespace(s) == SplitWhitespaceLoop(s, 1, <<>>, <<>>)

\* stop_words.contains(word.to_lowercase().as_str())
IsStopWord(sw, word) == to_lowercase(word) \in sw

\* A faulty variant of SegmentEnd: the buffer left at the end of a segment is dropped.
SegmentEndNoPush(phrase, out) == out

\* Lines 94-96: the buffer left at the end of a segment is pushed.
SegmentEnd(phrase, out) ==
    IF phrase # <<>> THEN Append(out, phrase) ELSE out

\* A faulty variant of StopWordSeen: the buffer is pushed but not cleared.
StopWordSeenNoClear(phrase, out) ==
    IF phrase # <<>> THEN [phrase |-> phrase, out |-> Append(out, phrase)]
    ELSE [phrase |-> phrase, out |-> out]

\* Lines 86-89: a stopword closes the buffer.
StopWordSeen(phrase, out) ==
    IF phrase # <<>> THEN [phrase |-> <<>>, out |-> Append(out, phrase)]
    ELSE [phrase |-> phrase, out |-> out]

\* Lines 84-96: the words of one segment, from word i on, with buffer `phrase`.
RECURSIVE SegmentLoop(_, _, _, _, _)
SegmentLoop(sw, words, i, phrase, out) ==
    IF i > Len(words) THEN SegmentEnd(phrase, out)
    ELSE IF IsStopWord(sw, words[i])
         THEN LET r == StopWordSeen(phrase, out) IN
              SegmentLoop(sw, words, i + 1, r.phrase, r.out)
         ELSE SegmentLoop(sw, words, i + 1, Append(phrase, words[i]), out)

\* Lines 82-97: the non-empty segments in order, each with a fresh buffer.
RECURSIVE PhrasesLoop(_, _, _, _)
PhrasesLoop(sw, segs, k, out) ==
    IF k > Len(segs) THEN out
    ELSE IF segs[k] = <<>> THEN PhrasesLoop(sw, segs, k + 1, out)
         ELSE PhrasesLoop(sw, segs, k + 1,
                          SegmentLoop(sw, split_whitespace(segs[k]), 1, <<>>, out))

\* Rake::phrases
Rake_phrases(sw, t) == PhrasesLoop(sw, punc_re_split(t), 1, <<>>)

----------------------------------------------------------------------------
\* f64 arithmetic on the rationals <<n, d>>, d > 0, in lowest terms.

RECURSIVE GCD(_, _)
GCD(a, b) == IF b = 0 THEN a ELSE GCD(b, a % b)

\* n as f64 / d as f64, d # 0
F64Div(n, d) == LET g == GCD(n, d) IN <<n \div g, d \div g>>

\* 0f64
F64Zero == <<0, 1>>

\* x + y
F64Add(x, y) == F64Div(x[1] * y[2] + y[1] * x[2], x[2] * y[2])

\* x >= y
F64Geq(x, y) == x[1] * y[2] >= y[1] * x[2]

----------------------------------------------------------------------------
\* Rake::word_scores

\* Lines 57-60: the number of words of the phrase that are not numbers.
RECURSIVE PhraseLen(_, _)
PhraseLen(phrase, i) ==
    IF i > Len(phrase) THEN 0
    ELSE (IF is_number(phrase[i]) THEN 0 ELSE 1) + PhraseLen(phrase, i + 1)

\* *map.entry(key).or_insert(0) += delta
EntryAdd(map, key, delta) ==
    IF key \in DOMAIN map THEN [map EXCEPT ![key] = @ + delta]
    ELSE [k \in DOMAIN map \cup {key} |-> IF k = key THEN delta ELSE map[k]]

\* A faulty variant of CountWord: the word counts itself in its degree.
CountWordSelf(acc, word, len) ==
    [word_freq   |-> EntryAdd(acc.word_freq, word, 1),
     word_degree |-> EntryAdd(acc.word_degree, word, len)]

\* A faulty variant of CountWord: no degree entry for a word that has no neighbour.
CountWordNoEntry(acc, word, len) ==
    [word_freq   |-> EntryAdd(acc.word_freq, word, 1),
     word_degree |-> IF len - 1 > 0 THEN EntryAdd(acc.word_degree, word, len - 1)
                     ELSE acc.word_degree]

\* Lines 66-67: one occurrence of a word in a phrase of `len` non-numeric words.
CountWord(acc, word, len) ==
    [word_freq   |-> EntryAdd(acc.word_freq, word, 1),
     word_degree |-> EntryAdd(acc.word_degree, word, len - 1)]

\* A faulty variant of CountFilter: numeric words are counted as well.
CountFilterAll(word) == TRUE

\* Line 64: the words of a phrase that are counted.
CountFilter(word) == ~is_number(word)

\* Lines 62-68: the words of one phrase, from word i on.
RECURSIVE CountPhrase(_, _, _, _)
CountPhrase(phrase, i, len, acc) ==
    IF i > Len(phrase) THEN acc
    ELSE CountPhrase(phrase, i + 1, len,
                     IF CountFilter(phrase[i]) THEN CountWord(acc, phrase[i], len)
                     ELSE acc)

\* Lines 54-70: word_freq and word_degree after the loop over the phrases.
RECURSIVE CountPhrases(_, _, _)
CountPhrases(ph, p, acc) ==
    IF p > Len(ph) THEN acc
    ELSE LET len == PhraseLen(ph[p], 1) IN
         CountPhrases(ph, p + 1,
                      IF len > 0 THEN CountPhrase(ph[p], 1, len, acc) ELSE acc)

WordCounts(ph) == CountPhrases(ph, 1, [word_freq |-> EmptyMap, word_degree |-> EmptyMap])

\* A faulty variant of WordScoreOf: the frequency is not added back to the degree.
WordScoreOfDegreeOnly(degree, freq) == F64Div(degree, freq)

\* Line 75: (word_degree[word] + freq) as f64 / freq as f64
WordScoreOf(degree, freq) == F64Div(degree + freq, freq)

\* Line 75: word_degree[word] panics when the word has no entry.
word_scores_panics(freq, degree) ==
    \E word \in DOMAIN freq : word \notin DOMAIN degree

\* Lines 71-77: the word score table.
word_score(freq, degree) ==
    [word \in DOMAIN freq |-> WordScoreOf(degree[word], freq[word])]

----------------------------------------------------------------------------
\* Rake::candidate_keywords

\* phrase.join(" ")
RECURSIVE Join(_, _)
Join(phrase, i) ==
    IF i > Len(phrase) THEN <<>>
    ELSE IF i = Len(phrase) THEN phrase[i]
         ELSE phrase[i] \o <<" ">> \o Join(phrase, i + 1)

\* Lines 42-45: candidate_score after the words of the phrase from word i on.
RECURSIVE CandidateScoreLoop(_, _, _, _)
CandidateScoreLoop(phrase, i, ws, candidate_score) ==
    IF i > Len(phrase) THEN candidate_score
    ELSE CandidateScoreLoop(phrase, i + 1, ws,
                            IF is_number(phrase[i]) THEN candidate_score
                            ELSE F64Add(candidate_score, ws[phrase[i]]))

\* Line 45: word_scores[word] panics when the word has no entry.
candidate_keywords_panics(ph, ws) ==
    \E p \in 1..Len(ph) : \E i \in 1..Len(ph[p]) :
        ~is_number(ph[p][i]) /\ ph[p][i] \notin DOMAIN ws

\* *map.entry(key).or_insert(0f64) = value
EntrySet(map, key, value) ==
    [k \in DOMAIN map \cup {key} |-> IF k = key THEN value ELSE map[k]]

\* A faulty variant of KeywordScoreLoop: the scores of a repeated key are added up.
RECURSIVE KeywordScoreLoopSum(_, _, _, _)
KeywordScoreLoopSum(ph, p, ws, map) ==
    IF p > Len(ph) THEN map
    ELSE LET key == Join(ph[p], 1)
             score == CandidateScoreLoop(ph[p], 1, ws, F64Zero) IN
         KeywordScoreLoopSum(ph, p + 1, ws,
             EntrySet(map, key,
                      IF key \in DOMAIN map THEN F64Add(map[key], score) ELSE score))

\* A faulty variant of KeywordScoreLoop: candidate_score is not reset between phrases.
RECURSIVE KeywordScoreLoopCarry(_, _, _, _)
KeywordScoreLoopCarry(ph, p, ws, map) ==
    IF p > Len(ph) THEN map
    ELSE LET before == IF p = 1 THEN F64Zero ELSE map[Join(ph[p - 1], 1)]
             score == CandidateScoreLoop(ph[p], 1, ws, before) IN
         KeywordScoreLoopCarry(ph, p + 1, ws, EntrySet(map, Join(ph[p], 1), score))

\* Lines 40-47: keyword_score after the phrases from phrase p on.
RECURSIVE KeywordScoreLoop(_, _, _, _)
KeywordScoreLoop(ph, p, ws, map) ==
    IF p > Len(ph) THEN map
    ELSE KeywordScoreLoop(ph, p + 1, ws,
             EntrySet(map, Join(ph[p], 1), CandidateScoreLoop(ph[p], 1, ws, F64Zero)))

\* The orders in which a HashMap with key set S can be iterated.
IterationOrders(S) ==
    {o \in [1..Cardinality(S) -> S] : \A i, j \in DOMAIN o : i # j => o[i] # o[j]}

\* KeywordScore::from_map: the entries of the map, in its iteration order.
from_map(map, order) ==
    [i \in 1..Len(order) |-> [keyword |-> order[i], score |-> map[order[i]]]]

\* Stable insertion of entry e into a list sorted by score, greatest first.
RECURSIVE InsertByScore(_, _, _)
InsertByScore(sorted, e, i) ==
    IF i > Len(sorted) THEN Append(sorted, e)
    ELSE IF F64Geq(sorted[i].score, e.score) THEN InsertByScore(sorted, e, i + 1)
         ELSE SubSeq(sorted, 1, i - 1) \o <<e>> \o SubSeq(sorted, i, Len(sorted))

RECURSIVE SortLoop(_, _, _)
SortLoop(list, i, sorted) ==
    IF i > Len(list) THEN sorted
    ELSE SortLoop(list, i + 1, InsertByScore(sorted, list[i], 1))

\* KeywordSort::sort_by_score: a stable sort by score, from greater to less.
sort_by_score(list) == SortLoop(list, 1, <<>>)

\* A faulty variant of RankKeywords: the list is returned unsorted.
RankKeywordsUnsorted(map, order) == from_map(map, order)

\* Lines 48-50: the map as a list, sorted.
RankKeywords(map, order) == sort_by_score(from_map(map, order))

----------------------------------------------------------------------------
\* Rake::run, one action per call it makes, and a second call on the same text.

Init ==
    /\ stop_words \in StopWordSets
    /\ text \in Texts
    /\ pc = "phrases"
    /\ phrases = <<>>
    /\ word_freq = EmptyMap
    /\ word_degree = EmptyMap
    /\ word_scores = EmptyMap
    /\ keyword_score = EmptyMap
    /\ keywords = <<>>
    /\ run_no = 1
    /\ first_keywords = <<>>

\* Line 29: self.phrases(text)
Phrases ==
    /\ pc = "phrases"
    /\ phrases' = Rake_phrases(stop_words, text)
    /\ pc' = "word_scores"
    /\ UNCHANGED <<stop_words, text, word_freq, word_degree, word_scores,
                   keyword_score, keywords, run_no, first_keywords>>

\* Line 30: self.word_scores(&phrases)
WordScores ==
    /\ pc = "word_scores"
    /\ LET c == WordCounts(phrases) IN
       /\ word_freq' = c.word_freq
       /\ word_degree' = c.word_degree
       /\ IF word_scores_panics(c.word_freq, c.word_degree)
          THEN pc' = "panicked" /\ UNCHANGED word_scores
          ELSE pc' = "candidate_keywords"
               /\ word_scores' = word_score(c.word_freq, c.word_degree)
    /\ UNCHANGED <<stop_words, text, phrases, keyword_score, keywords, run_no,
                   first_keywords>>

\* Line 31: self.candidate_keywords(&phrases, word_scores)
CandidateKeywords ==
    /\ pc = "candidate_keywords"
    /\ IF candidate_keywords_panics(phrases, word_scores)
       THEN pc' = "panicked" /\ UNCHANGED <<keyword_score, keywords>>
       ELSE LET map == KeywordScoreLoop(phrases, 1, word_scores, EmptyMap) IN
            /\ pc' = "done"
            /\ keyword_score' = map
            /\ \E order \in IterationOrders(DOMAIN map) :
                   keywords' = RankKeywords(map, order)
    /\ UNCHANGED <<stop_words, text, phrases, word_freq, word_degree, word_scores,
                   run_no, first_keywords>>

\* The caller calls run again, on the same text and the same Rake.
RunAgain ==
    /\ pc = "done"
    /\ run_no = 1
    /\ run_no' = 2
    /\ first_keywords' = keywords
    /\ pc' = "phrases"
    /\ phrases' = <<>>
    /\ word_freq' = EmptyMap
    /\ word_degree' = EmptyMap
    /\ word_scores' = EmptyMap
    /\ keyword_score' = EmptyMap
    /\ keywords' = <<>>
    /\ UNCHANGED <<stop_words, text>>

Next == Phrases \/ WordScores \/ CandidateKeywords \/ RunAgain

Spec == Init /\ [][Next]_vars

----------------------------------------------------------------------------
\* What the claims are stated with.

Returned == pc = "done"

\* The tokens of the text in source order, each with the number of the
\* punctuation-delimited segment it lies in.
RECURSIVE TokensFrom(_, _)
TokensFrom(segs, k) ==
    IF k > Len(segs) THEN <<>>
    ELSE LET words == split_whitespace(segs[k]) IN
         [i \in 1..Len(words) |-> [segment |-> k, word |-> words[i]]]
             \o TokensFrom(segs, k + 1)

Tokens == TokensFrom(punc_re_split(text), 1)

StopAt(toks, k) == to_lowercase(toks[k].word) \in stop_words

\* Tokens i..j are one maximal run of non-stopword tokens of one segment.
MaximalRun(toks, i, j) ==
    /\ i <= j
    /\ \A k \in i..j : ~StopAt(toks, k) /\ toks[k].segment = toks[i].segment
    /\ i = 1 \/ StopAt(toks, i - 1) \/ toks[i - 1].segment # toks[i].segment
    /\ j = Len(toks) \/ StopAt(toks, j + 1) \/ toks[j + 1].segment # toks[j].segment

MaximalRuns(toks) ==
    {r \in (1..Len(toks)) \X (1..Len(toks)) : MaximalRun(toks, r[1], r[2])}

\* phrases has just returned.
PhrasesReturned == pc = "word_scores"

\* The candidate key, the score the loop computes and the number of
\* non-numeric words of phrase p.
KeyOf(p) == Join(phrases[p], 1)

ScoreOf(p) == CandidateScoreLoop(phrases[p], 1, word_scores, F64Zero)

WordsOf(p) == {phrases[p][i] : i \in 1..Len(phrases[p])}

AllNumeric(p) == \A i \in 1..Len(phrases[p]) : is_number(phrases[p][i])

\* The occurrences <<p, i>> of the word in the document.
Occurrences(word) ==
    {o \in (1..Len(phrases)) \X (1..MaxLen) :
        o[2] <= Len(phrases[o[1]]) /\ phrases[o[1]][o[2]] = word}

\* The occurrences of the word with one other non-numeric token of the same
\* phrase instance each, <<p, i, j>>.
CoOccurrences(word) ==
    {c \in (1..Len(phrases)) \X (1..MaxLen) \X (1..MaxLen) :
        /\ c[2] <= Len(phrases[c[1]]) /\ c[3] <= Len(phrases[c[1]])
        /\ phrases[c[1]][c[2]] = word
        /\ c[3] # c[2]
        /\ ~is_number(phrases[c[1]][c[3]])}

\* The same, the other token being another word.
CoOccurrencesWithOtherWords(word) ==
    {c \in CoOccurrences(word) : phrases[c[1]][c[3]] # word}

----------------------------------------------------------------------------
\* C1: the list run returns is sorted by score, greatest first: each entry's
\* score is at least the next entry's.
C1_SortedByScore ==
    Returned =>
        \A i \in 1..(Len(keywords) - 1) :
            F64Geq(keywords[i].score, keywords[i + 1].score)

\* run has returned candidates of different scores.
C1_Witness ==
    /\ Returned
    /\ \E i, j \in 1..Len(keywords) : keywords[i].score # keywords[j].score

\* C3: when the text holds a token that is no stopword, run returns a
\* non-empty list.
C3_NonEmptyResult ==
    Returned =>
        LET toks == Tokens IN
        (\E k \in 1..Len(toks) : ~StopAt(toks, k)) => keywords # <<>>

\* run has returned for a text with a stopword and a token that is none.
C3_Witness ==
    /\ Returned
    /\ \E k \in 1..Len(Tokens) : ~StopAt(Tokens, k)
    /\ \E k \in 1..Len(Tokens) : StopAt(Tokens, k)

\* C4: the phrases are exactly the maximal runs of consecutive non-stopword
\* tokens of each punctuation-delimited segment, in source order, each token
\* with its original text; no phrase is empty, holds a stopword, or holds
\* whitespace or a splitting punctuation mark.
C4_PhrasesAreMaximalRuns ==
    PhrasesReturned =>
        LET toks == Tokens
            runs == MaximalRuns(toks) IN
        /\ Len(phrases) = Cardinality(runs)
        /\ \A r \in runs :
               LET p == Cardinality({q \in runs : q[1] <= r[1]}) IN
               phrases[p] = [i \in 1..(r[2] - r[1] + 1) |-> toks[r[1] + i - 1].word]
        /\ \A p \in 1..Len(phrases) :
               /\ phrases[p] # <<>>
               /\ \A i \in 1..Len(phrases[p]) :
                      /\ phrases[p][i] # <<>>
                      /\ to_lowercase(phrases[p][i]) \notin stop_words
                      /\ \A n \in 1..Len(phrases[p][i]) :
                             phrases[p][i][n] \notin {" ", ","}

\* A stopword stands between two other tokens of one segment, which have
\* become two phrases.
C4_Witness ==
    /\ PhrasesReturned
    /\ Len(phrases) = 2
    /\ LET toks == Tokens IN
       \E k \in 2..(Len(toks) - 1) :
           /\ StopAt(toks, k) /\ ~StopAt(toks, k - 1) /\ ~StopAt(toks, k + 1)
           /\ toks[k - 1].segment = toks[k + 1].segment

\* C5: the score of every returned candidate is the sum, over the
\* non-numeric tokens of its phrase, of (degree + frequency) / frequency, the
\* two totalled over all phrases of the document; a word alone in its phrase
\* and met nowhere else scores 1, a phrase of two words met nowhere else 4.
RECURSIVE C5_ExpectedScore(_, _)
C5_ExpectedScore(phrase, i) ==
    IF i > Len(phrase) THEN F64Zero
    ELSE LET rest == C5_ExpectedScore(phrase, i + 1)
             freq == Cardinality(Occurrences(phrase[i]))
             degree == Cardinality(CoOccurrences(phrase[i])) IN
         IF is_number(phrase[i]) THEN rest
         ELSE F64Add(F64Div(degree + freq, freq), rest)

C5_Isolated(p) ==
    /\ ~AllNumeric(p)
    /\ \A q \in 1..Len(phrases) : q # p => WordsOf(q) \cap WordsOf(p) = {}

C5_ScoreIsSumOfWordScores ==
    Returned =>
        /\ \A n \in 1..Len(keywords) :
               \E p \in 1..Len(phrases) : KeyOf(p) = keywords[n].keyword
        /\ \A p \in 1..Len(phrases) : \A n \in 1..Len(keywords) :
               KeyOf(p) = keywords[n].keyword =>
                   /\ keywords[n].score = C5_ExpectedScore(phrases[p], 1)
                   /\ (C5_Isolated(p) /\ Len(phrases[p]) = 1)
                          => keywords[n].score = <<1, 1>>
                   /\ (C5_Isolated(p) /\ Len(phrases[p]) = 2
                          /\ \A i \in 1..2 : ~is_number(phrases[p][i]))
                          => keywords[n].score = <<4, 1>>

\* A returned candidate's score rests on a later phrase: a word of the first
\* phrase is met again in a later, longer phrase.
C5_Witness ==
    /\ Returned
    /\ Len(phrases) >= 2
    /\ Len(phrases[1]) = 1 /\ ~AllNumeric(1)
    /\ \E q \in 2..Len(phrases) :
           /\ phrases[1][1] \in WordsOf(q)
           /\ \E w \in WordsOf(q) : w # phrases[1][1] /\ ~is_number(w)
    /\ \E n \in 1..Len(keywords) :
           keywords[n].keyword = KeyOf(1) /\ keywords[n].score = <<3, 2>>

\* C6: no numeric token has an entry in the word score table, and a phrase
\* of numeric tokens only still yields a candidate, keyed by its tokens
\* joined by single spaces, with score 0, and run does not fail.
C6_NumericTokens ==
    /\ \A w \in DOMAIN word_scores : ~is_number(w)
    /\ \A w \in DOMAIN word_freq : ~is_number(w)
    /\ pc # "panicked"
    /\ Returned =>
           \A p \in 1..Len(phrases) : AllNumeric(p) =>
               /\ WordsOf(p) \cap DOMAIN word_scores = {}
               /\ \E n \in 1..Len(keywords) :
                      /\ keywords[n].keyword = KeyOf(p)
                      /\ keywords[n].score = F64Zero

\* run has returned for a document with a phrase of two numeric tokens.
C6_Witness ==
    /\ Returned
    /\ \E p \in 1..Len(phrases) : AllNumeric(p) /\ Len(phrases[p]) = 2
    /\ \E n \in 1..Len(keywords) :
           Len(keywords[n].keyword) = 3 /\ keywords[n].keyword[2] = " "

\* C7: run never fails: no lookup misses its key and no divisor is zero.
\* Every non-numeric token of every phrase has a word score when
\* candidate_keywords looks it up, every word with a frequency has a degree,
\* and every frequency is at least 1.
C7_RunNeverFails ==
    /\ pc # "panicked"
    /\ pc \in {"candidate_keywords", "done"} =>
           /\ \A p \in 1..Len(phrases) : \A i \in 1..Len(phrases[p]) :
                  ~is_number(phrases[p][i]) => phrases[p][i] \in DOMAIN word_scores
           /\ DOMAIN word_freq \subseteq DOMAIN word_degree
           /\ \A w \in DOMAIN word_freq : word_freq[w] >= 1

\* run has returned for a phrase that mixes a numeric token with a word,
\* and for a word that has no neighbour.
C7_Witness ==
    /\ Returned
    /\ \E p \in 1..Len(phrases) :
           ~AllNumeric(p) /\ \E i \in 1..Len(phrases[p]) : is_number(phrases[p][i])
    /\ \E w \in DOMAIN word_degree : word_degree[w] = 0

\* The phrases that give the same candidate key as phrase p.
SameKey(p) == {q \in 1..Len(phrases) : KeyOf(q) = KeyOf(p)}

Latest(p) == CHOOSE q \in SameKey(p) : \A r \in SameKey(p) : r <= q

RECURSIVE SumOfScores(_)
SumOfScores(ps) ==
    IF ps = {} THEN F64Zero
    ELSE LET q == CHOOSE q \in ps : TRUE IN F64Add(ScoreOf(q), SumOfScores(ps \ {q}))

\* C8: a candidate key given by several phrase occurrences holds the score
\* computed for the latest of them, not their sum, and stands exactly once
\* in the ranked result.
C8_LatestOccurrenceKept ==
    Returned =>
        \A p \in 1..Len(phrases) :
            /\ keyword_score[KeyOf(p)] = ScoreOf(Latest(p))
            /\ (Cardinality(SameKey(p)) > 1 /\ ScoreOf(p) # F64Zero)
                   => keyword_score[KeyOf(p)] # SumOfScores(SameKey(p))
            /\ Cardinality({n \in 1..Len(keywords) :
                               keywords[n].keyword = KeyOf(p)}) = 1
            /\ \A n \in 1..Len(keywords) :
                   keywords[n].keyword = KeyOf(p)
                       => keywords[n].score = ScoreOf(Latest(p))

\* run has returned for a document in which a key with a score above 0 is
\* given by two phrases.
C8_Witness ==
    /\ Returned
    /\ \E p, q \in 1..Len(phrases) :
           p < q /\ KeyOf(p) = KeyOf(q) /\ ScoreOf(q) # F64Zero

\* C9 as stated: the degree of a word counts its co-occurrences with the
\* other non-numeric words of its phrases only, never an occurrence of the
\* word itself, also when the word stands more than once in one phrase.
C9_DegreeCountsOtherWordsOnly ==
    pc \in {"candidate_keywords", "done"} =>
        \A w \in DOMAIN word_degree :
            word_degree[w] = Cardinality(CoOccurrencesWithOtherWords(w))

\* C9 as amended: each occurrence of a word adds to the word's degree the
\* number of the other non-numeric tokens of its phrase instance: it never
\* counts itself, and it counts the other occurrences of the same word.
C9_DegreeCountsOtherTokens ==
    pc \in {"candidate_keywords", "done"} =>
        /\ DOMAIN word_degree =
               {w \in UNION {WordsOf(p) : p \in 1..Len(phrases)} : ~is_number(w)}
        /\ \A w \in DOMAIN word_degree :
               word_degree[w] = Cardinality(CoOccurrences(w))

\* word_scores has counted a phrase in which a word stands twice.
C9_Witness ==
    /\ pc = "candidate_keywords"
    /\ \E p \in 1..Len(phrases) : \E i, j \in 1..Len(phrases[p]) :
           i # j /\ phrases[p][i] = phrases[p][j] /\ ~is_number(phrases[p][i])

\* The candidate table when the phrases are processed in the given order,
\* a later one overwriting.
RECURSIVE TableInOrder(_, _, _)
TableInOrder(order, i, map) ==
    IF i > Len(order) THEN map
    ELSE TableInOrder(order, i + 1, EntrySet(map, KeyOf(order[i]), ScoreOf(order[i])))

\* The candidate table when the first occurrence of a key is kept.
RECURSIVE TableFirstKept(_, _)
TableFirstKept(p, map) ==
    IF p > Len(phrases) THEN map
    ELSE TableFirstKept(p + 1,
             IF KeyOf(p) \in DOMAIN map THEN map
             ELSE EntrySet(map, KeyOf(p), ScoreOf(p)))

\* C10: all occurrences of a candidate key compute the same score, so the
\* candidate table is the same in whatever order the phrases are processed,
\* and whether the first or the latest occurrence of a key is kept.
C10_TableIndependentOfOrder ==
    Returned =>
        /\ \A p, q \in 1..Len(phrases) : KeyOf(p) = KeyOf(q) => ScoreOf(p) = ScoreOf(q)
        /\ \A order \in IterationOrders(1..Len(phrases)) :
               keyword_score = TableInOrder(order, 1, EmptyMap)
        /\ keyword_score = TableFirstKept(1, EmptyMap)
        /\ {keywords[n] : n \in 1..Len(keywords)} =
               {[keyword |-> k, score |-> TableFirstKept(1, EmptyMap)[k]] :
                   k \in DOMAIN TableFirstKept(1, EmptyMap)}

\* run has returned for a document with a repeated key and another key
\* between its occurrences.
C10_Witness ==
    /\ Returned
    /\ Len(phrases) >= 3
    /\ KeyOf(1) = KeyOf(3) /\ KeyOf(2) # KeyOf(1)
    /\ ScoreOf(1) # ScoreOf(2)

\* C2: a second run on the same text returns the same list as the first:
\* the same entries in the same order, the entries of equal score included.
C2_SecondRunIdentical ==
    (run_no = 2 /\ Returned) => keywords = first_keywords

====
